---- MODULE Spec2Model ----
(***************************************************************************)
(* Model of the framework-learning skill scripts:                          *)
(*   crawl.py      crawl_docs  - breadth-first discovery of in-domain URLs *)
(*   bm25_rank.py  rank_pages  - sort by BM25 score and take the top k     *)
(*                                                                         *)
(* A URL string is modelled by the record urlparse() makes of it:          *)
(* scheme, host (netloc), path (the sequence of segments that follow each  *)
(* "/"), query and frag.  Two URL strings are equal exactly when their     *)
(* records are equal.  A link is a URL reference: the same record plus     *)
(* abs (the path starts with "/") and valid (urlparse accepts it).         *)
(* Title, headings and snippet of a page do not influence the traversal    *)
(* and are left out of the page record.                                    *)
(***************************************************************************)
EXTENDS Integers, Sequences, FiniteSets, TLC

VARIABLES seed_url, max_pages, domain, scheme, visited, queue, discovered,
          current_url, pc, fetched, lastInternal, skipped,
          pages, k, scores, results, rpc

vars == <<seed_url, max_pages, domain, scheme, visited, queue, discovered,
          current_url, pc, fetched, lastInternal, skipped, pages, k, scores, results, rpc>>

crawlVars == <<seed_url, max_pages, domain, scheme, visited, queue, discovered,
               current_url, pc, fetched, lastInternal, skipped>>

rankVars == <<pages, k, scores, results, rpc>>

(* ------------------------------ bounds --------------------------------- *)
MaxPagesBound == 3
MaxLinks == 2
MaxDocs == 3
MaxK == 4
MaxNegK == 2
MaxScore == 1

(* -------------------------- program constants -------------------------- *)
LinkLimit == 10

(* ------------------------------ helpers -------------------------------- *)
Url(s, h, p, q, f) == [scheme |-> s, host |-> h, path |-> p, query |-> q, frag |-> f]

Ref(s, h, a, p, q, f, v) ==
    [scheme |-> s, host |-> h, abs |-> a, path |-> p, query |-> q, frag |-> f, valid |-> v]

NoUrl == Url("", "", <<>>, "", "")

Range(s) == {s[i] : i \in DOMAIN s}

Front(s) == IF Len(s) = 0 THEN <<>> ELSE SubSeq(s, 1, Len(s) - 1)

Take(s, n) == IF n >= Len(s) THEN s ELSE SubSeq(s, 1, n)

Min(a, b) == IF a < b THEN a ELSE b

Max(a, b) == IF a > b THEN a ELSE b

Reverse(s) == [i \in 1..Len(s) |-> s[Len(s) + 1 - i]]

(* ------------------------- inputs of the crawl ------------------------- *)
Seeds ==
    { Url("https", "docs", <<"a">>, "", ""),
      Url("https", "docs", <<"a">>, "", "f"),
      Url("https", "docs", <<"a", "b">>, "q", ""),
      Url("http", "docs", <<>>, "", "") }

LinkRefs ==
    { Ref("", "", TRUE, <<"a">>, "", "", TRUE),
      Ref("", "", FALSE, <<"c">>, "", "", TRUE),
      Ref("", "", FALSE, <<>>, "", "f", TRUE),
      Ref("https", "docs", TRUE, <<"b">>, "q", "f", TRUE),
      Ref("https", "other", TRUE, <<"a">>, "", "", TRUE),
      Ref("http", "docs", TRUE, <<"a">>, "", "", TRUE),
      Ref("http", "[bad", TRUE, <<>>, "", "", FALSE) }

LinkLists == UNION { [1..n -> LinkRefs] : n \in 0..MaxLinks }

(* ------------------------------ urllib --------------------------------- *)
\* urljoin(base, link) followed by urlparse: RFC 3986 reference resolution
UrlJoin(base, link) ==
    IF link.scheme = "" /\ link.host = "" /\ link.path = <<>>
       /\ link.query = "" /\ link.frag = ""
    THEN base
    ELSE IF link.scheme # "" /\ link.scheme # base.scheme
    THEN Url(link.scheme, link.host, link.path, link.query, link.frag)
    ELSE IF link.host # ""
    THEN Url(base.scheme, link.host, link.path, link.query, link.frag)
    ELSE IF link.path = <<>>
    THEN Url(base.scheme, base.host, base.path,
             IF link.query # "" THEN link.query ELSE base.query, link.frag)
    ELSE IF link.abs
    THEN Url(base.scheme, base.host, link.path, link.query, link.frag)
    ELSE Url(base.scheme, base.host, Front(base.path) \o link.path,
             link.query, link.frag)

Netloc(u) == u.host

\* line 111: clean_url = f"{scheme}://{parsed.netloc}{parsed.path}"
CleanUrl(sch, parsed) == Url(sch, parsed.host, parsed.path, "", "")

SameDomainAny(u, dom) == TRUE

\* lines 66 and 110: the netloc of the URL is the seed's netloc
SameDomain(u, dom) == Netloc(u) = dom

NotSeenVisitedOnly(u, vis, q) == u \notin vis

NotSeenQueueOnly(u, vis, q) == u \notin Range(q)

\* line 112: clean_url not in visited and clean_url not in queue
NotSeen(u, vis, q) == u \notin vis /\ u \notin Range(q)

LoopGuardInclusive(q, vis, maxp) == q # <<>> /\ Cardinality(vis) <= maxp

\* line 60: while queue and len(visited) < max_pages
LoopGuard(q, vis, maxp) == q # <<>> /\ Cardinality(vis) < maxp

PeekFront(q) == q

\* line 61: queue.pop(0) leaves the rest of the queue
PopFront(q) == Tail(q)

\* lines 64-67: the two "continue" tests
ShouldSkip(u, vis, dom) == u \in vis \/ ~SameDomain(u, dom)

\* lines 105-113: the loop over result.links["internal"][:10]; urljoin raises
\* ValueError on a link urlparse rejects, which ends the loop (line 115)
RECURSIVE EnqueueLinks(_, _, _, _, _, _, _)
EnqueueLinks(q, vis, cur, dom, sch, links, i) ==
    IF i > Len(links) THEN q
    ELSE IF ~links[i].valid THEN q
    ELSE LET full == UrlJoin(cur, links[i])
             clean_url == CleanUrl(sch, full)
             q2 == IF SameDomain(full, dom) /\ NotSeen(clean_url, vis, q)
                   THEN Append(q, clean_url) ELSE q
         IN EnqueueLinks(q2, vis, cur, dom, sch, links, i + 1)

\* the links of a page the loop of lines 106-113 gets to: those before the
\* first link urljoin rejects
RECURSIVE Processed(_)
Processed(links) ==
    IF links = <<>> \/ ~Head(links).valid THEN <<>>
    ELSE <<Head(links)>> \o Processed(Tail(links))

\* history: the in-domain targets among the processed links of a page
InternalTargets(cur, dom, sch, links) ==
    { CleanUrl(sch, UrlJoin(cur, l)) :
        l \in { r \in Range(Processed(links)) : Netloc(UrlJoin(cur, r)) = dom } }

(* ------------------------------ crawl_docs ----------------------------- *)
RankIdle ==
    /\ pages = <<>>
    /\ k = 0
    /\ scores = <<>>
    /\ results = <<>>
    /\ rpc = "idle"

\* lines 45-51
Init ==
    /\ seed_url \in Seeds
    /\ max_pages \in 1..MaxPagesBound
    /\ domain = Netloc(seed_url)
    /\ scheme = seed_url.scheme
    /\ visited = {}
    /\ queue = <<seed_url>>
    /\ discovered = <<>>
    /\ current_url = NoUrl
    /\ pc = "loop"
    /\ fetched = <<>>
    /\ lastInternal = {}
    /\ skipped = FALSE
    /\ RankIdle

\* lines 60-70: one pass of the loop head, up to the await of the fetch
Iterate ==
    /\ pc = "loop"
    /\ LoopGuard(queue, visited, max_pages)
    /\ queue' = PopFront(queue)
    /\ IF ShouldSkip(Head(queue), visited, domain)
       THEN /\ skipped' = TRUE
            /\ UNCHANGED <<visited, current_url, pc>>
       ELSE /\ visited' = visited \cup {Head(queue)}
            /\ current_url' = Head(queue)
            /\ pc' = "fetch"
            /\ UNCHANGED skipped
    /\ UNCHANGED <<seed_url, max_pages, domain, scheme, discovered, fetched,
                   lastInternal>>
    /\ UNCHANGED rankVars

\* line 60 false, line 119: the loop ends and the result is returned
LoopExit ==
    /\ pc = "loop"
    /\ ~LoopGuard(queue, visited, max_pages)
    /\ pc' = "done"
    /\ UNCHANGED <<seed_url, max_pages, domain, scheme, visited, queue,
                   discovered, current_url, fetched, lastInternal, skipped>>
    /\ UNCHANGED rankVars

\* lines 73-113: the fetch returns with result.success true
FetchSuccess(links) ==
    /\ pc = "fetch"
    /\ discovered' = Append(discovered, [url |-> current_url])
    /\ queue' = EnqueueLinks(queue, visited, current_url, domain, scheme,
                             Take(links, LinkLimit), 1)
    /\ fetched' = Append(fetched, [url |-> current_url, outcome |-> "ok"])
    /\ lastInternal' = InternalTargets(current_url, domain, scheme,
                                       Take(links, LinkLimit))
    /\ pc' = "loop"
    /\ UNCHANGED <<seed_url, max_pages, domain, scheme, visited, current_url, skipped>>
    /\ UNCHANGED rankVars

FetchFailureRetry ==
    /\ pc = "fetch"
    /\ fetched' = Append(fetched, [url |-> current_url, outcome |-> "fail"])
    /\ lastInternal' = {}
    /\ visited' = visited \ {current_url}
    /\ queue' = Append(queue, current_url)
    /\ pc' = "loop"
    /\ UNCHANGED <<seed_url, max_pages, domain, scheme, discovered, current_url, skipped>>
    /\ UNCHANGED rankVars

\* lines 73-75: the fetch returns with result.success false
FetchFailure ==
    /\ pc = "fetch"
    /\ fetched' = Append(fetched, [url |-> current_url, outcome |-> "fail"])
    /\ lastInternal' = {}
    /\ pc' = "loop"
    /\ UNCHANGED <<seed_url, max_pages, domain, scheme, visited, queue,
                   discovered, current_url, skipped>>
    /\ UNCHANGED rankVars

FetchExceptionFatal ==
    /\ pc = "fetch"
    /\ fetched' = Append(fetched, [url |-> current_url, outcome |-> "raise"])
    /\ lastInternal' = {}
    /\ pc' = "done"
    /\ UNCHANGED <<seed_url, max_pages, domain, scheme, visited, queue,
                   discovered, current_url, skipped>>
    /\ UNCHANGED rankVars

\* lines 73, 115-117: crawler.arun raises, the except clause continues the loop
FetchException ==
    /\ pc = "fetch"
    /\ fetched' = Append(fetched, [url |-> current_url, outcome |-> "raise"])
    /\ lastInternal' = {}
    /\ pc' = "loop"
    /\ UNCHANGED <<seed_url, max_pages, domain, scheme, visited, queue,
                   discovered, current_url, skipped>>
    /\ UNCHANGED rankVars

Next ==
    \/ Iterate
    \/ LoopExit
    \/ \E links \in LinkLists : FetchSuccess(links)
    \/ FetchFailure
    \/ FetchException

Spec == Init /\ [][Next]_vars

\* one thread of control runs the loop and every fetch returns or raises
FairSpec == Init /\ [][Next]_vars /\ WF_vars(Next)

(* ------------------------------ rank_pages ----------------------------- *)
\* BM25 scores are real numbers; the model draws them from a few integers
ScoreVals == (0 - MaxScore)..MaxScore

CrawlIdle ==
    /\ seed_url = NoUrl
    /\ max_pages = 0
    /\ domain = ""
    /\ scheme = ""
    /\ visited = {}
    /\ queue = <<>>
    /\ discovered = <<>>
    /\ current_url = NoUrl
    /\ pc = "idle"
    /\ fetched = <<>>
    /\ lastInternal = {}
    /\ skipped = FALSE

\* lines 39-43: the index file is loaded; k is the caller's --k
RankInit ==
    /\ pages \in { [i \in 1..n |-> [url |-> i]] : n \in 0..MaxDocs }
    /\ k \in (0 - MaxNegK)..MaxK
    /\ scores = <<>>
    /\ results = <<>>
    /\ rpc = "loaded"
    /\ CrawlIdle

\* the stable ascending sort of list.sort: x goes after every element whose
\* key is not greater than its own
RECURSIVE InsertByKey(_, _)
InsertByKey(x, s) ==
    IF s = <<>> THEN <<x>>
    ELSE IF Head(s).score <= x.score THEN <<Head(s)>> \o InsertByKey(x, Tail(s))
    ELSE <<x>> \o s

RECURSIVE StableSort(_)
StableSort(s) ==
    IF s = <<>> THEN <<>>
    ELSE InsertByKey(s[Len(s)], StableSort(Front(s)))

SortedReverseUnstable(entries) == Reverse(StableSort(entries))

\* lines 55-67: sorted(..., key=score, reverse=True) reverses the list, sorts
\* it stably by ascending key and reverses the outcome
SortedReverse(entries) == Reverse(StableSort(Reverse(entries)))

PySliceOffByOne(s, n) ==
    IF n >= 0 THEN Take(s, n + 1) ELSE Take(s, Max(0, Len(s) + n))

\* line 67: the slice [:k]; a negative k counts from the end of the list
PySlice(s, n) ==
    IF n >= 0 THEN Take(s, n) ELSE Take(s, Max(0, Len(s) + n))

\* lines 56-64: one entry per page, id is the position given by enumerate
Entries(pgs, scs) ==
    [i \in 1..Len(pgs) |-> [id |-> i - 1, url |-> pgs[i].url, score |-> scs[i]]]

\* line 46: BM25Okapi is an external library; building it over an empty
\* corpus may raise (the average document length divides by the corpus size)
BuildFails ==
    /\ rpc = "loaded"
    /\ pages = <<>>
    /\ rpc' = "error"
    /\ UNCHANGED <<pages, k, scores, results>>
    /\ UNCHANGED crawlVars

\* lines 46-52: bm25.get_scores returns one score per page
GetScores ==
    /\ rpc = "loaded"
    /\ scores' \in [1..Len(pages) -> ScoreVals]
    /\ rpc' = "scored"
    /\ UNCHANGED <<pages, k, results>>
    /\ UNCHANGED crawlVars

\* lines 55-73
RankAndSlice ==
    /\ rpc = "scored"
    /\ results' = PySlice(SortedReverse(Entries(pages, scores)), k)
    /\ rpc' = "done"
    /\ UNCHANGED <<pages, k, scores>>
    /\ UNCHANGED crawlVars

RankNext ==
    \/ BuildFails
    \/ GetScores
    \/ RankAndSlice

RankSpec == RankInit /\ [][RankNext]_vars

(* ------------------------------- claims -------------------------------- *)
NoDuplicates(s) == \A i, j \in DOMAIN s : s[i] = s[j] => i = j

Failed(o) == o \in {"fail", "raise"}

\* C1: every URL of the discovered list has the host of the seed URL
C1_DiscoveredInDomain ==
    \A i \in DOMAIN discovered : Netloc(discovered[i].url) = Netloc(seed_url)

C1_Witness ==
    /\ pc = "done"
    /\ Len(discovered) >= 2
    /\ \E i \in DOMAIN discovered : discovered[i].url # seed_url

\* C2: |discovered| <= |visited| <= max_pages, and the fetch attempts, failed
\* ones included, never exceed max_pages
C2_Bounded ==
    /\ Len(discovered) <= Cardinality(visited)
    /\ Cardinality(visited) <= max_pages
    /\ Len(fetched) <= Cardinality(visited)

C2_Witness ==
    /\ max_pages >= 2
    /\ Cardinality(visited) = max_pages
    /\ Len(fetched) = max_pages
    /\ Len(discovered) < max_pages
    /\ queue # <<>>

\* C3: every URL is fetch-attempted at most once whatever the outcome, it is
\* in visited while its fetch is in flight, and discovered holds no URL twice
C3_AttemptedOnce ==
    /\ NoDuplicates([i \in DOMAIN fetched |-> fetched[i].url])
    /\ NoDuplicates([i \in DOMAIN discovered |-> discovered[i].url])
    /\ pc = "fetch" => current_url \in visited
    /\ pc = "fetch" => \A i \in DOMAIN fetched : fetched[i].url # current_url
    /\ \A i \in DOMAIN fetched : fetched[i].url \in visited

\* a page fetched after a failed one links back to the failed URL
C3_Witness ==
    /\ pc = "loop"
    /\ Len(fetched) >= 3
    /\ \E i \in 1..(Len(fetched) - 1) :
          /\ Failed(fetched[i].outcome)
          /\ fetched[i].url \in lastInternal
    /\ fetched[Len(fetched)].outcome = "ok"

\* C4: a fetch that fails or raises leaves discovered and the queue as they
\* were and hands control back to the loop test, and the crawl ends only when
\* the loop test fails
C4_FailureNotFatal ==
    /\ [][(pc = "fetch" /\ Len(fetched') > Len(fetched)
             /\ Failed(fetched'[Len(fetched')].outcome))
          => (discovered' = discovered /\ queue' = queue /\ pc' = "loop")]_vars
    /\ [](pc = "done" => ~LoopGuard(queue, visited, max_pages))

C4_Witness ==
    \E i, j \in DOMAIN fetched :
        /\ i < j
        /\ fetched[i].outcome = "raise"
        /\ fetched[j].outcome = "ok"
        /\ Len(discovered) >= 2

SeedFetchedAlone ==
    /\ pc = "done"
    /\ max_pages = 1
    /\ Len(fetched) >= 1
    /\ fetched[1].outcome = "ok"

IsCanonical(u) == u.query = "" /\ u.frag = ""

Canonical(u) == [u EXCEPT !.query = "", !.frag = ""]

\* C6: the url of every discovered page is canonical (scheme, host and path,
\* no fragment) and no two discovered pages have the same canonical URL
C6_Canonical ==
    /\ \A i \in DOMAIN discovered : IsCanonical(discovered[i].url)
    /\ NoDuplicates([i \in DOMAIN discovered |-> Canonical(discovered[i].url)])

\* C7 as stated: for every integer k the results have length min(k, |corpus|)
C7_Original == rpc = "done" => Len(results) = Min(k, Len(pages))

\* C7 amended: the results have length min(k, |corpus|) for k >= 0 and
\* max(0, |corpus| + k) for k < 0
C7_Length ==
    rpc = "done" =>
        Len(results) = IF k >= 0 THEN Min(k, Len(pages))
                       ELSE Max(0, Len(pages) + k)

C7_Witness == rpc = "done" /\ k >= 1 /\ k < Len(pages) /\ Len(results) = k

RanksBefore(a, b) == a.score > b.score \/ (a.score = b.score /\ a.id < b.id)

\* C8: the results are in descending score order with ties in ascending id
\* order, and they are the leading entries of the corpus in that order
C8_Ordered ==
    rpc = "done" =>
        /\ Range(results) \subseteq Range(Entries(pages, scores))
        /\ \A i, j \in DOMAIN results : i < j => RanksBefore(results[i], results[j])
        /\ \A i \in DOMAIN results :
              \A e \in Range(Entries(pages, scores)) \ Range(results) :
                  RanksBefore(results[i], e)
        /\ k >= 0 => Len(results) = Min(k, Len(pages))

C8_Witness ==
    /\ rpc = "done"
    /\ Len(results) >= 2
    /\ Len(results) < Len(pages)
    /\ results[1].score = results[2].score
    /\ results[1].id > 0

\* C9: every crawl ends, and it ends with the queue empty or with max_pages
\* URLs visited
C9_Terminates ==
    /\ <>(pc = "done")
    /\ [](pc = "done" => (queue = <<>> \/ Cardinality(visited) >= max_pages))

C9_Witness ==
    /\ pc = "done"
    /\ Len(fetched) >= 2
    /\ queue = <<>>
    /\ Cardinality(visited) < max_pages

\* C10: at the loop boundary the queue holds no URL twice, no visited URL and
\* only URLs of the seed's host, and the skip branch is never taken
C10_QueueClean ==
    /\ pc = "loop" =>
          /\ NoDuplicates(queue)
          /\ Range(queue) \cap visited = {}
          /\ \A i \in DOMAIN queue : Netloc(queue[i]) = Netloc(seed_url)
    /\ (pc = "loop" /\ LoopGuard(queue, visited, max_pages))
          => ~ShouldSkip(Head(queue), visited, domain)
    /\ skipped = FALSE

\* a page linked to a URL visited before, and the queue still holds two URLs
C10_Witness ==
    /\ pc = "loop"
    /\ Len(queue) >= 2
    /\ Len(fetched) >= 2
    /\ lastInternal \cap visited # {}

====
